---- MODULE Spec2Model ----
(***************************************************************************)
(* Model of the LUW plugin (src/main.js, second CommonJS module, lines     *)
(* 74-308): the term block list luWeekBlocks, its refresh from the ICS     *)
(* feed, the luWeek resolver and the patch of moment.prototype.format.     *)
(*                                                                         *)
(* Strings the code takes apart (date tokens, ISO dates, format            *)
(* templates, labels) are sequences of one-character strings.  A feed      *)
(* line is a record [tag, val]; a DESCRIPTION is a sequence of words.      *)
(* A moment is a record [valid, t], t counted in ticks of a day.           *)
(***************************************************************************)
EXTENDS Integers, Sequences, FiniteSets, TLC

(***************************************************************************)
(* Bounds of the model.                                                    *)
(***************************************************************************)
MaxEvents == 2        \* VEVENT records in one feed (feed pipeline)
MaxWeek == 3          \* largest "Wk n" number in a feed
MaxPending == 1       \* onload calls in flight at once (lifecycle)

(***************************************************************************)
(* Strings, numbers and the calendar of the date library.                  *)
(***************************************************************************)
DigitChars == <<"0", "1", "2", "3", "4", "5", "6", "7", "8", "9">>

IsDigit(c) == \E i \in 1..10 : DigitChars[i] = c

DigitVal(c) == (CHOOSE i \in 1..10 : DigitChars[i] = c) - 1

\* n >= 0 written with exactly w decimal digits
RECURSIVE Digits(_, _)
Digits(n, w) == IF w = 0 THEN <<>>
                ELSE Digits(n \div 10, w - 1) \o <<DigitChars[(n % 10) + 1]>>

\* `${n}` for an integer n >= 0
RECURSIVE NumToStr(_)
NumToStr(n) == IF n < 10 THEN <<DigitChars[n + 1]>>
               ELSE NumToStr(n \div 10) \o <<DigitChars[(n % 10) + 1]>>

\* value of a sequence of decimal digits
RECURSIVE DigitsVal(_)
DigitsVal(s) == IF s = <<>> THEN 0
                ELSE 10 * DigitsVal(SubSeq(s, 1, Len(s) - 1)) + DigitVal(s[Len(s)])

\* dateStr.substring(a, b): characters a .. b-1, counted from 0
Substring(s, a, b) == SubSeq(s, a + 1, b)

IsLeap(y) == (y % 4 = 0 /\ y % 100 # 0) \/ y % 400 = 0

DaysInMonth(y, m) == IF m = 2 THEN (IF IsLeap(y) THEN 29 ELSE 28)
                     ELSE IF m \in {4, 6, 9, 11} THEN 30 ELSE 31

RECURSIVE DaysBeforeMonth(_, _)
DaysBeforeMonth(y, m) == IF m = 1 THEN 0
                         ELSE DaysBeforeMonth(y, m - 1) + DaysInMonth(y, m - 1)

LeapsBefore(y) == ((y - 1) \div 4) - ((y - 1) \div 100) + ((y - 1) \div 400)

\* days from 2025-01-01 to y-m-d
DayNum(y, m, d) == 365 * (y - 2025) + (LeapsBefore(y) - LeapsBefore(2025))
                   + DaysBeforeMonth(y, m) + (d - 1)

\* a moment: valid or not, and its instant in ticks
TicksPerDay == 3
Moment(t) == [valid |-> TRUE, t |-> t]
InvalidMoment == [valid |-> FALSE, t |-> 0]

\* window.moment(str, "YYYY-MM-DD")
ParseISO(s) ==
    IF /\ Len(s) = 10
       /\ s[5] = "-" /\ s[8] = "-"
       /\ \A i \in {1, 2, 3, 4, 6, 7, 9, 10} : IsDigit(s[i])
    THEN LET y == DigitsVal(SubSeq(s, 1, 4))
             m == DigitsVal(SubSeq(s, 6, 7))
             d == DigitsVal(SubSeq(s, 9, 10))
         IN IF m \in 1..12 /\ d >= 1 /\ d <= DaysInMonth(y, m)
            THEN Moment(DayNum(y, m, d) * TicksPerDay)
            ELSE InvalidMoment
    ELSE InvalidMoment

StartOfDay(m) == IF m.valid THEN Moment((m.t \div TicksPerDay) * TicksPerDay) ELSE m

EndOfDay(m) == IF m.valid
               THEN Moment((m.t \div TicksPerDay) * TicksPerDay + (TicksPerDay - 1))
               ELSE m

\* mutant: the end taken as the next midnight, cur.isBetween(lo, hi + 1ms, undefined, "[]")
IsBetween_NextMidnight(cur, lo, hi) == /\ cur.valid /\ lo.valid /\ hi.valid
                                       /\ lo.t <= cur.t /\ cur.t <= hi.t + 1

\* mutant: cur.isBetween(lo, hi, "day", "[)")
IsBetween_ExclusiveDay(cur, lo, hi) == /\ cur.valid /\ lo.valid /\ hi.valid
                                       /\ lo.t <= cur.t
                                       /\ cur.t \div TicksPerDay < hi.t \div TicksPerDay

\* cur.isBetween(lo, hi, undefined, "[]")
IsBetween(cur, lo, hi) == /\ cur.valid /\ lo.valid /\ hi.valid
                          /\ lo.t <= cur.t /\ cur.t <= hi.t

\* cur.diff(start, "days"), for cur >= start
DiffDays(cur, start) == (cur.t - start.t) \div TicksPerDay

(***************************************************************************)
(* Program constants (src/main.js 86-96).                                  *)
(***************************************************************************)
Chars_25_26 == <<"2", "5", "/", "2", "6">>
Chars_24_25 == <<"2", "4", "/", "2", "5">>
Chars_Wk == <<"W", "k">>
Chars_Michaelmas == <<"M", "i", "c", "h", "a", "e", "l", "m", "a", "s", " ", "T", "e", "r", "m">>
Chars_Lent == <<"L", "e", "n", "t", " ", "T", "e", "r", "m">>
Chars_Summer == <<"S", "u", "m", "m", "e", "r", " ", "T", "e", "r", "m">>
Chars_Week == <<"W", "e", "e", "k", " ">>
Chars_VACATION == <<"V", "A", "C", "A", "T", "I", "O", "N">>
Chars_LUW == <<"L", "U", "W">>
Chars_bad == <<"b", "a", "d">>

TARGET_YEAR == Chars_25_26

\* "YYYY-MM-DD" as the literal the source writes
Iso(y, m, d) == Digits(y, 4) \o <<"-">> \o Digits(m, 2) \o <<"-">> \o Digits(d, 2)

DefaultBlocks ==
    << [start |-> Iso(2025, 10, 6), end |-> Iso(2025, 12, 14), startWeek |-> 1, endWeek |-> 10],
       [start |-> Iso(2026, 1, 12), end |-> Iso(2026, 3, 22), startWeek |-> 11, endWeek |-> 20],
       [start |-> Iso(2026, 4, 27), end |-> Iso(2026, 6, 28), startWeek |-> 22, endWeek |-> 30] >>

(***************************************************************************)
(* Feed Ingestor (src/main.js 101-240).  An absent property of an event    *)
(* is None, a present one Some(value).                                     *)
(***************************************************************************)
None == <<>>
Some(x) == <<x>>

EmptyEvent == [summary |-> None, description |-> None, startDate |-> None, endDate |-> None]

\* str.includes(word), a description being a sequence of words
Includes(desc, word) == \E i \in 1..Len(desc) : desc[i] = word

\* one step of the loop body of parseICS for line lines[i]
RECURSIVE ParseFrom(_, _, _, _)
ParseFrom(lines, i, cur, events) ==
    IF i > Len(lines) THEN events
    ELSE LET line == lines[i] IN
         IF line.tag = "BEGIN:VEVENT"
         THEN ParseFrom(lines, i + 1, Some(EmptyEvent), events)
         ELSE IF line.tag = "END:VEVENT" /\ cur # None
         THEN IF cur[1].description # None /\ Includes(cur[1].description[1], TARGET_YEAR)
              THEN ParseFrom(lines, i + 1, None, Append(events, cur[1]))
              ELSE ParseFrom(lines, i + 1, None, events)
         ELSE IF cur # None
         THEN IF line.tag = "SUMMARY:"
              THEN ParseFrom(lines, i + 1, Some([cur[1] EXCEPT !.summary = Some(line.val)]), events)
              ELSE IF line.tag = "DESCRIPTION:"
              THEN ParseFrom(lines, i + 1, Some([cur[1] EXCEPT !.description = Some(line.val)]), events)
              ELSE IF line.tag = "DTSTART;VALUE=DATE:"
              THEN ParseFrom(lines, i + 1, Some([cur[1] EXCEPT !.startDate = Some(line.val)]), events)
              ELSE IF line.tag = "DTEND;VALUE=DATE:"
              THEN ParseFrom(lines, i + 1, Some([cur[1] EXCEPT !.endDate = Some(line.val)]), events)
              ELSE ParseFrom(lines, i + 1, cur, events)
         ELSE ParseFrom(lines, i + 1, cur, events)

parseICS(icsData) == ParseFrom(icsData, 1, None, <<>>)

formatDate(dateStr) ==
    IF Len(dateStr) = 8
    THEN Substring(dateStr, 0, 4) \o <<"-">> \o Substring(dateStr, 4, 6)
         \o <<"-">> \o Substring(dateStr, 6, 8)
    ELSE dateStr

\* event.description || ""
DescOf(event) == IF event.description = None THEN <<>> ELSE event.description[1]

TermOf(event) ==
    LET desc == DescOf(event) IN
    IF Includes(desc, Chars_Michaelmas) THEN "michaelmas"
    ELSE IF Includes(desc, Chars_Lent) THEN "lent"
    ELSE IF Includes(desc, Chars_Summer) THEN "summer"
    ELSE "none"

organizeByTerm(events) ==
    [term \in {"michaelmas", "lent", "summer"} |->
        SelectSeq(events, LAMBDA e : TermOf(e) = term)]

\* the leading decimal digits of a word
RECURSIVE LeadingDigits(_)
LeadingDigits(w) == IF w # <<>> /\ IsDigit(w[1]) THEN <<w[1]>> \o LeadingDigits(Tail(w))
                    ELSE <<>>

\* description.match(/Wk (\d+)/): the first "Wk" followed by a word starting with digits
WkMatches(desc) == {i \in 1..(Len(desc) - 1) :
                        desc[i] = Chars_Wk /\ LeadingDigits(desc[i + 1]) # <<>>}

\* getWeekNumber: None for null, Some(n) otherwise
getWeekNumber(event) ==
    LET desc == DescOf(event) IN
    IF WkMatches(desc) = {} THEN None
    ELSE LET i == CHOOSE j \in WkMatches(desc) : \A k \in WkMatches(desc) : j <= k
         IN Some(DigitsVal(LeadingDigits(desc[i + 1])))

WeekOf(event) == getWeekNumber(event)[1]

\* Array.prototype.sort((a, b) => getWeekNumber(a) - getWeekNumber(b)): stable
RECURSIVE InsertByWeek(_, _)
InsertByWeek(sorted, e) ==
    IF sorted = <<>> THEN <<e>>
    ELSE IF WeekOf(sorted[Len(sorted)]) <= WeekOf(e) THEN Append(sorted, e)
    ELSE Append(InsertByWeek(SubSeq(sorted, 1, Len(sorted) - 1), e), sorted[Len(sorted)])

\* mutant: the filtered events left in feed order
SortByWeek_FeedOrder(events) == events

RECURSIVE SortByWeek(_)
SortByWeek(events) ==
    IF events = <<>> THEN <<>>
    ELSE InsertByWeek(SortByWeek(SubSeq(events, 1, Len(events) - 1)), events[Len(events)])

\* terms.X.filter(e => getWeekNumber(e) !== null).sort(...)
TermWeeks(termEvents) == SortByWeek(SelectSeq(termEvents, LAMBDA e : getWeekNumber(e) # None))

\* formatDate(undefined) reads undefined.length: a TypeError
TermThrows(weeks) ==
    /\ Len(weeks) > 0
    /\ (weeks[1].startDate = None \/ weeks[Len(weeks)].endDate = None)

\* the block pushed for one term, as a sequence of zero or one block
TermBlock(weeks) ==
    IF Len(weeks) > 0
    THEN << [start |-> formatDate(weeks[1].startDate[1]),
             end |-> formatDate(weeks[Len(weeks)].endDate[1]),
             startWeek |-> WeekOf(weeks[1]),
             endWeek |-> WeekOf(weeks[Len(weeks)])] >>
    ELSE <<>>

NewBlocks(terms) == TermBlock(TermWeeks(terms["michaelmas"]))
                    \o TermBlock(TermWeeks(terms["lent"]))
                    \o TermBlock(TermWeeks(terms["summer"]))

\* a response of requestUrl: a rejection, or the feed text
FetchFailure == [ok |-> FALSE, text |-> <<>>]
FetchSuccess(text) == [ok |-> TRUE, text |-> text]

\* mutant: luWeekBlocks = newBlocks without the test newBlocks.length > 0
updateWeekBlocksFromICS_AlwaysAssign(response, blocks) ==
    IF ~response.ok THEN [outcome |-> "failed", blocks |-> blocks]
    ELSE LET terms == organizeByTerm(parseICS(response.text)) IN
         IF \E term \in DOMAIN terms : TermThrows(TermWeeks(terms[term]))
         THEN [outcome |-> "threw", blocks |-> blocks]
         ELSE [outcome |-> IF Len(NewBlocks(terms)) > 0 THEN "installed" ELSE "empty",
               blocks |-> NewBlocks(terms)]

\* updateWeekBlocksFromICS after the await: the outcome and the new value
\* of luWeekBlocks
updateWeekBlocksFromICS(response, blocks) ==
    IF ~response.ok THEN [outcome |-> "failed", blocks |-> blocks]
    ELSE LET terms == organizeByTerm(parseICS(response.text)) IN
         IF \E term \in DOMAIN terms : TermThrows(TermWeeks(terms[term]))
         THEN [outcome |-> "threw", blocks |-> blocks]
         ELSE IF Len(NewBlocks(terms)) > 0
         THEN [outcome |-> "installed", blocks |-> NewBlocks(terms)]
         ELSE [outcome |-> "empty", blocks |-> blocks]

(***************************************************************************)
(* Week Resolver (src/main.js 248-268) and the patched format (274-283).   *)
(***************************************************************************)
WeekLabel(n) == Chars_Week \o NumToStr(n)

\* mutant: weeks counted from one, block.startWeek + Math.ceil((daysDiff + 1) / 7)
ComputedWeek_OneBased(block, daysDiff) == block.startWeek + (daysDiff \div 7) + 1

\* block.startWeek + Math.floor(daysDiff / 7)
ComputedWeek(block, daysDiff) == block.startWeek + (daysDiff \div 7)

RECURSIVE luWeekFrom(_, _, _)
luWeekFrom(currentDate, blocks, i) ==
    IF i > Len(blocks) THEN Chars_VACATION
    ELSE LET block == blocks[i]
             startDate == StartOfDay(ParseISO(block.start))
             endDate == EndOfDay(ParseISO(block.end))
         IN IF IsBetween(currentDate, startDate, endDate)
            THEN LET daysDiff == DiffDays(currentDate, startDate)
                     computedWeek == ComputedWeek(block, daysDiff)
                 IN IF computedWeek <= block.endWeek THEN WeekLabel(computedWeek)
                    ELSE Chars_VACATION
            ELSE luWeekFrom(currentDate, blocks, i + 1)

\* this.luWeek() for the moment this, under the block list blocks
luWeek(this, blocks) == luWeekFrom(StartOfDay(this), blocks, 1)

IsPrefix(p, s) == Len(p) <= Len(s) /\ SubSeq(s, 1, Len(p)) = p

\* formatStr.includes(sub)
IncludesStr(s, sub) == \E i \in 0..(Len(s) - Len(sub)) : SubSeq(s, i + 1, i + Len(sub)) = sub

\* mutant: formatStr.replace(/LUW/, rep), the first occurrence only
RECURSIVE ReplaceLUW_FirstOnly(_, _)
ReplaceLUW_FirstOnly(s, rep) ==
    IF s = <<>> THEN <<>>
    ELSE IF IsPrefix(Chars_LUW, s) THEN rep \o SubSeq(s, 4, Len(s))
    ELSE <<s[1]>> \o ReplaceLUW_FirstOnly(Tail(s), rep)

\* formatStr.replace(/LUW/g, rep)
RECURSIVE ReplaceLUW(_, _)
ReplaceLUW(s, rep) ==
    IF s = <<>> THEN <<>>
    ELSE IF IsPrefix(Chars_LUW, s) THEN rep \o ReplaceLUW(SubSeq(s, 4, Len(s)), rep)
    ELSE <<s[1]>> \o ReplaceLUW(Tail(s), rep)

\* originalFormat.call(this, formatStr): the library's rendering, left
\* uninterpreted as the pair it is applied to
originalFormat(this, formatStr) == [engine |-> "originalFormat", this |-> this, formatStr |-> formatStr]

\* the function installed at src/main.js 274; an absent formatStr is None
patchedFormat(this, formatStr, blocks) ==
    IF formatStr = None \/ formatStr = Some(<<>>) THEN originalFormat(this, formatStr)
    ELSE IF IncludesStr(formatStr[1], Chars_LUW)
    THEN LET luValue == luWeek(this, blocks)
         IN originalFormat(this, Some(ReplaceLUW(formatStr[1], <<"[">> \o luValue \o <<"]">>)))
    ELSE originalFormat(this, formatStr)

(***************************************************************************)
(* Inputs.  A feed is described by a sequence of event descriptors         *)
(* [year, term, week, start, end]; Render writes the text the server       *)
(* sends for it.  week = 0 is a description without "Wk n"; a date is      *)
(* [kind |-> "ymd", day |-> d] (the token 202510dd), "bad" (the token      *)
(* bad) or "missing" (no DTSTART/DTEND line with VALUE=DATE).              *)
(***************************************************************************)
Line(tag, val) == [tag |-> tag, val |-> val]

Raw(y, m, d) == Digits(y, 4) \o Digits(m, 2) \o Digits(d, 2)

Ymd(d) == [kind |-> "ymd", day |-> d]
BadDate == [kind |-> "bad", day |-> 0]
MissingDate == [kind |-> "missing", day |-> 0]

\* the feed's weeks: slot s runs from 2025-10-(6+7s) to 2025-10-(12+7s)
Slots == {0, 1}
SlotStart(s) == Ymd(6 + 7 * s)
SlotEnd(s) == Ymd(12 + 7 * s)

Descriptor(year, term, week, start, end) ==
    [year |-> year, term |-> term, week |-> week, start |-> start, end |-> end]

TermWord(term) == IF term = "michaelmas" THEN <<Chars_Michaelmas>>
                  ELSE IF term = "lent" THEN <<Chars_Lent>>
                  ELSE IF term = "summer" THEN <<Chars_Summer>>
                  ELSE <<>>

DateLine(tag, date) ==
    IF date.kind = "ymd" THEN <<Line(tag, Raw(2025, 10, date.day))>>
    ELSE IF date.kind = "bad" THEN <<Line(tag, Chars_bad)>>
    ELSE <<Line("OTHER", <<>>)>>

RenderEvent(e) ==
    <<Line("BEGIN:VEVENT", <<>>),
      Line("DESCRIPTION:", <<e.year>> \o TermWord(e.term)
                           \o (IF e.week > 0 THEN <<Chars_Wk, NumToStr(e.week)>> ELSE <<>>))>>
    \o DateLine("DTSTART;VALUE=DATE:", e.start)
    \o DateLine("DTEND;VALUE=DATE:", e.end)
    \o <<Line("END:VEVENT", <<>>)>>

RECURSIVE RenderEvents(_)
RenderEvents(es) == IF es = <<>> THEN <<>>
                    ELSE RenderEvent(Head(es)) \o RenderEvents(Tail(es))

Render(es) == <<Line("OTHER", <<>>)>> \o RenderEvents(es) \o <<Line("OTHER", <<>>)>>

WellFormedEvents ==
    {Descriptor(Chars_25_26, "michaelmas", w, SlotStart(s), SlotEnd(s)) :
        w \in 1..MaxWeek, s \in Slots}
    \cup {Descriptor(Chars_25_26, "michaelmas", 1, SlotStart(0), SlotStart(1)),
          Descriptor(Chars_25_26, "lent", 1, SlotStart(0), SlotEnd(0)),
          Descriptor(Chars_25_26, "lent", MaxWeek, SlotStart(1), SlotEnd(1)),
          Descriptor(Chars_25_26, "summer", MaxWeek, SlotStart(1), SlotEnd(1))}

MalformedEvents ==
    {Descriptor(Chars_25_26, "michaelmas", 2, BadDate, SlotEnd(0)),
     Descriptor(Chars_25_26, "michaelmas", 2, MissingDate, SlotEnd(0)),
     Descriptor(Chars_25_26, "michaelmas", 2, SlotStart(0), BadDate),
     Descriptor(Chars_25_26, "michaelmas", 2, SlotStart(0), MissingDate),
     Descriptor(Chars_25_26, "michaelmas", 0, SlotStart(0), SlotEnd(0))}

OtherEvents ==
    {Descriptor(Chars_24_25, "michaelmas", 1, SlotStart(0), SlotEnd(0)),
     Descriptor(Chars_25_26, "none", 1, SlotStart(0), SlotEnd(0))}

EventAlphabet == WellFormedEvents \cup MalformedEvents \cup OtherEvents

SeqsUpTo(S, n) == UNION {[1..k -> S] : k \in 0..n}

AllFeeds == SeqsUpTo(EventAlphabet, MaxEvents)

\* the feeds of the lifecycle specification
LifecycleFeeds ==
    { <<Descriptor(Chars_25_26, "michaelmas", 1, SlotStart(0), SlotEnd(0)),
        Descriptor(Chars_25_26, "michaelmas", 2, SlotStart(1), SlotEnd(1))>>,
      <<Descriptor(Chars_25_26, "lent", 1, SlotStart(0), SlotEnd(0))>>,
      <<Descriptor(Chars_25_26, "none", 1, SlotStart(0), SlotEnd(0))>>,
      <<Descriptor(Chars_25_26, "michaelmas", 2, MissingDate, SlotEnd(0))>> }

Oct(d) == DayNum(2025, 10, d)

\* the days on which luWeek and format are called
QueryDays == {Oct(5), Oct(6), Oct(12), Oct(13), Oct(19), Oct(20), DayNum(2025, 12, 14)}

\* the days on which it is also called at the last instant of the day
LateQueryDays == {Oct(12), Oct(19)}

\* the moments luWeek is called on: the first instant of each query day, and
\* the last instant of some
QueryMoments == {Moment(d * TicksPerDay) : d \in QueryDays}
                \cup {Moment(d * TicksPerDay + (TicksPerDay - 1)) : d \in LateQueryDays}

\* format templates: absent, "", "LUW", "D LUW", "LUWLUW", "[LUW]", "D", "LU W"
Templates ==
    {None, Some(<<>>), Some(Chars_LUW), Some(<<"D", " ">> \o Chars_LUW),
     Some(Chars_LUW \o Chars_LUW), Some(<<"[">> \o Chars_LUW \o <<"]">>),
     Some(<<"D">>), Some(<<"L", "U", " ", "W">>)}

(***************************************************************************)
(* State.                                                                  *)
(***************************************************************************)
VARIABLES
    luWeekBlocks,     \* the module-level let luWeekBlocks
    format,           \* window.moment.prototype.format: "original" or "patched"
    luwInjected,      \* window.moment.prototype._luwInjected is set
    luWeekInstalled,  \* window.moment.prototype.luWeek is defined
    pending,          \* the onload calls awaiting their fetch: [torn]
    lastCall,         \* the last lifecycle hook the host called
    lastRefresh,      \* the last run of updateWeekBlocksFromICS past its await
    lastQuery         \* the last call of luWeek() or format() and its result

vars == <<luWeekBlocks, format, luwInjected, luWeekInstalled, pending, lastCall,
          lastRefresh, lastQuery>>

NoRefresh == [outcome |-> "none", before |-> <<>>, torn |-> FALSE, events |-> <<>>]
NoQuery == [kind |-> "none", this |-> Moment(0), formatStr |-> None, blocks |-> <<>>,
            patched |-> FALSE, label |-> <<>>, out |-> originalFormat(Moment(0), None)]

Init ==
    /\ luWeekBlocks = DefaultBlocks
    /\ format = "original"
    /\ luwInjected = FALSE
    /\ luWeekInstalled = FALSE
    /\ pending = <<>>
    /\ lastCall = "none"
    /\ lastRefresh = NoRefresh
    /\ lastQuery = NoQuery

RemoveAt(s, i) == SubSeq(s, 1, i - 1) \o SubSeq(s, i + 1, Len(s))

\* onload() up to the await of requestUrl (src/main.js 289-291, 181-183)
OnloadCall ==
    /\ Len(pending) < MaxPending
    /\ pending' = Append(pending, [torn |-> FALSE])
    /\ lastCall' = "onload"
    /\ UNCHANGED <<luWeekBlocks, format, luwInjected, luWeekInstalled, lastRefresh, lastQuery>>

\* requestUrl of the i-th onload in flight settles with response: the rest of
\* updateWeekBlocksFromICS (184-239), then the rest of onload, which is
\* enhanceMomentWithLUWeek() (245-286, 294)
FetchSettles(i, response, events) ==
    /\ LET r == updateWeekBlocksFromICS(response, luWeekBlocks) IN
        /\ luWeekBlocks' = r.blocks
        /\ lastRefresh' = [outcome |-> r.outcome, before |-> luWeekBlocks,
                           torn |-> pending[i].torn, events |-> events]
    /\ luWeekInstalled' = TRUE
    /\ format' = IF luwInjected THEN format ELSE "patched"
    /\ luwInjected' = TRUE
    /\ pending' = RemoveAt(pending, i)
    /\ UNCHANGED <<lastCall, lastQuery>>

FetchSucceeds(feeds) ==
    \E i \in 1..Len(pending), es \in feeds : FetchSettles(i, FetchSuccess(Render(es)), es)

FetchFails ==
    \E i \in 1..Len(pending) : FetchSettles(i, FetchFailure, <<>>)

\* onunload() (src/main.js 298-307)
OnunloadCall ==
    /\ lastCall # "none"
    /\ IF luwInjected
       THEN /\ format' = "original"
            /\ luwInjected' = FALSE
            /\ luWeekInstalled' = FALSE
       ELSE UNCHANGED <<format, luwInjected, luWeekInstalled>>
    /\ pending' = [i \in 1..Len(pending) |-> [pending[i] EXCEPT !.torn = TRUE]]
    /\ lastCall' = "onunload"
    /\ UNCHANGED <<luWeekBlocks, lastRefresh, lastQuery>>

\* moment.prototype.format as it is bound in the current state
Format(this, formatStr) ==
    IF format = "patched" THEN patchedFormat(this, formatStr, luWeekBlocks)
    ELSE originalFormat(this, formatStr)

\* the host calls m.luWeek()
LuWeekCall(moments) ==
    \E this \in moments :
        /\ luWeekInstalled
        /\ lastQuery' = [NoQuery EXCEPT !.kind = "luWeek", !.this = this,
                                        !.blocks = luWeekBlocks,
                                        !.patched = (format = "patched"),
                                        !.label = luWeek(this, luWeekBlocks)]
        /\ UNCHANGED <<luWeekBlocks, format, luwInjected, luWeekInstalled, pending,
                       lastCall, lastRefresh>>

\* the host calls m.format(formatStr)
FormatCall(moments) ==
    \E this \in moments, formatStr \in Templates :
        /\ lastQuery' = [NoQuery EXCEPT !.kind = "format", !.this = this,
                                        !.formatStr = formatStr,
                                        !.blocks = luWeekBlocks,
                                        !.patched = (format = "patched"),
                                        !.out = Format(this, formatStr)]
        /\ UNCHANGED <<luWeekBlocks, format, luwInjected, luWeekInstalled, pending,
                       lastCall, lastRefresh>>

LifecycleMoments == {Moment(Oct(5) * TicksPerDay), Moment(Oct(13) * TicksPerDay + 1)}

\* the plugin's life: loads, unloads, fetches and format calls interleaved
Next ==
    \/ OnloadCall
    \/ FetchSucceeds(LifecycleFeeds)
    \/ FetchFails
    \/ OnunloadCall
    \/ FormatCall(LifecycleMoments)

Spec == Init /\ [][Next]_vars

\* one load over every feed of the bounds, then calls of luWeek
FirstLoad == lastCall = "none" /\ OnloadCall

NextFeed ==
    \/ FirstLoad
    \/ FetchSucceeds(AllFeeds)
    \/ FetchFails
    \/ LuWeekCall(QueryMoments)

SpecFeed == Init /\ [][NextFeed]_vars

(***************************************************************************)
(* Vocabulary of the properties: what a feed says, read from its           *)
(* descriptors, and the day arithmetic of a block.                         *)
(***************************************************************************)
DayOf(m) == m.t \div TicksPerDay

BlockStartDay(b) == DayOf(ParseISO(b.start))
BlockEndDay(b) == DayOf(ParseISO(b.end))
BlockDatesValid(b) == ParseISO(b.start).valid /\ ParseISO(b.end).valid

\* day lies in the inclusive day range of block b
InDayRange(day, b) == BlockDatesValid(b) /\ BlockStartDay(b) <= day /\ day <= BlockEndDay(b)

\* no block before position i covers day
NoEarlierBlock(blocks, i, day) == \A j \in 1..(i - 1) : ~InDayRange(day, blocks[j])

IsoOfDate(date) == IF date.kind = "ymd" THEN Iso(2025, 10, date.day)
                   ELSE IF date.kind = "bad" THEN Chars_bad
                   ELSE <<"?">>

\* the events of a term that count: target year, that term, a week number
Counted(es, term) == {i \in 1..Len(es) :
                        es[i].year = Chars_25_26 /\ es[i].term = term /\ es[i].week > 0}

MinOf(S) == CHOOSE x \in S : \A y \in S : x <= y
MaxOf(S) == CHOOSE x \in S : \A y \in S : x >= y

\* the block of one term: lowest and highest week, the dates of the first
\* lowest-week event and of the last highest-week event in feed order
ExpectedTermBlock(es, term) ==
    LET E == Counted(es, term) IN
    IF E = {} THEN <<>>
    ELSE LET lo == MinOf({es[i].week : i \in E})
             hi == MaxOf({es[i].week : i \in E})
             first == MinOf({i \in E : es[i].week = lo})
             last == MaxOf({i \in E : es[i].week = hi})
         IN << [start |-> IsoOfDate(es[first].start), end |-> IsoOfDate(es[last].end),
                startWeek |-> lo, endWeek |-> hi] >>

ExpectedBlocks(es) == ExpectedTermBlock(es, "michaelmas") \o ExpectedTermBlock(es, "lent")
                      \o ExpectedTermBlock(es, "summer")

Reordered(es, p) == [i \in 1..Len(es) |-> es[p[i]]]

RefreshSucceeded == lastRefresh.outcome \in {"installed", "empty"}

\* the list a successful refresh derived (empty when it installed nothing)
DerivedBlocks == IF lastRefresh.outcome = "installed" THEN luWeekBlocks ELSE <<>>

IsLuWeekQuery == lastQuery.kind = "luWeek"
QueryDay == DayOf(lastQuery.this)

(***************************************************************************)
(* Properties of the Week Resolver, checked under SpecFeed on every call   *)
(* of luWeek and the block list it ran against.                            *)
(***************************************************************************)

\* C1 as stated: for every block (with calendar dates) of start date D, start
\* week S and end week E and every k >= 0 with S + k <= E, the date D + 7k
\* resolves to "Week " followed by S + k.
C1_WeekNumberingAnyBlock ==
    IsLuWeekQuery =>
        \A i \in 1..Len(lastQuery.blocks) :
            LET b == lastQuery.blocks[i] IN
            BlockDatesValid(b) =>
                \A k \in 0..(b.endWeek - b.startWeek) :
                    QueryDay = BlockStartDay(b) + 7 * k
                        => lastQuery.label = WeekLabel(b.startWeek + k)

\* C1 amended: for every block of the active list with start date D, start
\* week S and end week E and every k >= 0 with S + k <= E, if D + 7k is not
\* after the block's end date and lies in no earlier block of the list, then
\* the date D + 7k resolves to "Week " followed by S + k.
C1_WeekNumbering ==
    IsLuWeekQuery =>
        \A i \in 1..Len(lastQuery.blocks) :
            LET b == lastQuery.blocks[i] IN
            \A k \in 0..(b.endWeek - b.startWeek) :
                ( /\ InDayRange(QueryDay, b)
                  /\ QueryDay = BlockStartDay(b) + 7 * k
                  /\ NoEarlierBlock(lastQuery.blocks, i, QueryDay) )
                    => lastQuery.label = WeekLabel(b.startWeek + k)

\* a call on the date D + 7 of a block derived from the feed answered Week S + 1
C1_Witness ==
    /\ IsLuWeekQuery
    /\ lastRefresh.outcome = "installed"
    /\ \E i \in 1..Len(lastQuery.blocks) :
        LET b == lastQuery.blocks[i] IN
        /\ InDayRange(QueryDay, b)
        /\ QueryDay = BlockStartDay(b) + 7
        /\ b.startWeek + 1 <= b.endWeek
        /\ NoEarlierBlock(lastQuery.blocks, i, QueryDay)
        /\ lastQuery.label = WeekLabel(b.startWeek + 1)

\* C2: a date outside the inclusive [start, end] day range of every block of
\* the active list (the default one or one a refresh installed) resolves to
\* "VACATION".
C2_OutsideIsVacation ==
    IsLuWeekQuery =>
        ( (\A i \in 1..Len(lastQuery.blocks) : ~InDayRange(QueryDay, lastQuery.blocks[i]))
            => lastQuery.label = Chars_VACATION )

\* a call on the day after the end of the only block of a refreshed list,
\* a day on which the week count would not yet have passed endWeek
C2_Witness ==
    /\ IsLuWeekQuery
    /\ lastRefresh.outcome = "installed"
    /\ Len(lastQuery.blocks) = 1
    /\ BlockDatesValid(lastQuery.blocks[1])
    /\ QueryDay = BlockEndDay(lastQuery.blocks[1]) + 1
    /\ lastQuery.blocks[1].startWeek + ((QueryDay - BlockStartDay(lastQuery.blocks[1])) \div 7)
          <= lastQuery.blocks[1].endWeek
    /\ lastQuery.label = Chars_VACATION

\* the week a block computes for its own end date
EndDateWeek(b) == b.startWeek + ((BlockEndDay(b) - BlockStartDay(b)) \div 7)

\* C3 as stated: for every block (with calendar dates) of the active list,
\* default or derived from the feed, the block's end date resolves per that
\* block to a "Week n" label, never to "VACATION" nor to a label of another
\* block.
C3_EndDateIsAWeek ==
    IsLuWeekQuery =>
        \A i \in 1..Len(lastQuery.blocks) :
            LET b == lastQuery.blocks[i] IN
            (BlockDatesValid(b) /\ QueryDay = BlockEndDay(b)) =>
                /\ lastQuery.label # Chars_VACATION
                /\ lastQuery.label = WeekLabel(EndDateWeek(b))

\* C3 amended: for every block of the active list whose dates are valid with
\* start <= end and whose end date lies in no earlier block of the list, the
\* end date is resolved by that block and by no later one: to "Week n" with
\* n = startWeek + floor((end - start) / 7) when n <= endWeek, to "VACATION"
\* when n > endWeek; for each default block it is "Week " followed by
\* endWeek.
C3_EndDateBoundary ==
    IsLuWeekQuery =>
        \A i \in 1..Len(lastQuery.blocks) :
            LET b == lastQuery.blocks[i] IN
            ( /\ InDayRange(QueryDay, b)
              /\ QueryDay = BlockEndDay(b)
              /\ NoEarlierBlock(lastQuery.blocks, i, QueryDay) )
                => /\ lastQuery.label = IF EndDateWeek(b) <= b.endWeek
                                        THEN WeekLabel(EndDateWeek(b))
                                        ELSE Chars_VACATION
                   /\ lastQuery.blocks = DefaultBlocks => lastQuery.label = WeekLabel(b.endWeek)

\* a call at the last instant of the end date of a block derived from the
\* feed, followed in the list by a block of other weeks covering the same day
C3_Witness ==
    /\ IsLuWeekQuery
    /\ lastRefresh.outcome = "installed"
    /\ Len(lastQuery.blocks) = 2
    /\ InDayRange(QueryDay, lastQuery.blocks[1])
    /\ InDayRange(QueryDay, lastQuery.blocks[2])
    /\ QueryDay = BlockEndDay(lastQuery.blocks[1])
    /\ QueryDay > BlockStartDay(lastQuery.blocks[1])
    /\ lastQuery.this.t % TicksPerDay = TicksPerDay - 1
    /\ lastQuery.blocks[2].startWeek # lastQuery.blocks[1].endWeek
    /\ lastQuery.label = WeekLabel(lastQuery.blocks[1].endWeek)

(***************************************************************************)
(* Properties of the Feed Ingestor, checked under SpecFeed.                *)
(***************************************************************************)

\* C8 as stated: in a successful refresh each term's week-numbered events
\* reduce to one block from the lowest-week event's start to the
\* highest-week event's end with the lowest and highest week numbers,
\* whatever the order of the events in the feed; the list is these blocks in
\* the order michaelmas, lent, summer.
C8_ReductionAnyOrder ==
    RefreshSucceeded =>
        \A p \in Permutations(1..Len(lastRefresh.events)) :
            DerivedBlocks = ExpectedBlocks(Reordered(lastRefresh.events, p))

\* C8 amended: in a successful refresh each term's week-numbered events
\* reduce to one block with the lowest and highest week numbers, starting at
\* the start date of the lowest-week event (the first in feed order when
\* several carry the lowest number) and ending at the end date of the
\* highest-week event (the last in feed order when several carry the highest
\* number); a term with no week-numbered event contributes no block, and the
\* list is these blocks in the order michaelmas, lent, summer.
C8_Reduction ==
    RefreshSucceeded => DerivedBlocks = ExpectedBlocks(lastRefresh.events)

\* a michaelmas feed listing Wk 2 before Wk 1 was reduced to one block 1..2
C8_Witness ==
    /\ lastRefresh.outcome = "installed"
    /\ Len(lastRefresh.events) = 2
    /\ \A i \in 1..2 : lastRefresh.events[i].term = "michaelmas"
                       /\ lastRefresh.events[i].year = Chars_25_26
    /\ lastRefresh.events[1].week = 2 /\ lastRefresh.events[2].week = 1
    /\ lastRefresh.events[1].start.kind = "ymd" /\ lastRefresh.events[2].start.kind = "ymd"
    /\ lastRefresh.events[1].start # lastRefresh.events[2].start
    /\ Len(luWeekBlocks) = 1
    /\ luWeekBlocks[1].startWeek = 1 /\ luWeekBlocks[1].endWeek = 2
    /\ luWeekBlocks[1].start = IsoOfDate(lastRefresh.events[2].start)

MalformedEvent(e) ==
    /\ e.year = Chars_25_26
    /\ (e.start.kind # "ymd" \/ e.end.kind # "ymd" \/ e.week = 0)

WellFormedEvent(e) ==
    /\ e.year = Chars_25_26 /\ e.term # "none" /\ e.week > 0
    /\ e.start.kind = "ymd" /\ e.end.kind = "ymd"

\* C9: when a fetched feed holds a malformed event of the target year
\* (missing or unparseable start/end date token, or no week number) next to
\* well-formed events, the refresh completes, the malformed event
\* contributes nothing to any block, and the blocks derived from the
\* well-formed events are installed as the active list.
C9_MalformedExcluded ==
    ( /\ lastRefresh.outcome # "none"
      /\ \E i \in 1..Len(lastRefresh.events) : MalformedEvent(lastRefresh.events[i])
      /\ \E i \in 1..Len(lastRefresh.events) : WellFormedEvent(lastRefresh.events[i]) )
        => /\ lastRefresh.outcome = "installed"
           /\ luWeekBlocks = ExpectedBlocks(SelectSeq(lastRefresh.events, WellFormedEvent))

\* C10, on feeds without malformed events: after a successful refresh, every
\* feed event of the target year that belongs to a term and carries week
\* number n resolves, on its start date, to "Week n".
C10_FeedRoundTrip ==
    ( /\ lastRefresh.outcome = "installed"
      /\ \A i \in 1..Len(lastRefresh.events) : ~MalformedEvent(lastRefresh.events[i]) ) =>
        \A i \in 1..Len(lastRefresh.events) :
            LET e == lastRefresh.events[i] IN
            (e.year = Chars_25_26 /\ e.term # "none" /\ e.week > 0 /\ e.start.kind = "ymd")
                => luWeek(Moment(Oct(e.start.day) * TicksPerDay), luWeekBlocks)
                       = WeekLabel(e.week)

(***************************************************************************)
(* Properties of the lifecycle and of the patched format, checked under    *)
(* Spec.                                                                   *)
(***************************************************************************)

\* C4: a refresh that ends in a fetch failure, or that succeeds but derives
\* no block, leaves luWeekBlocks as it was before it (default or refreshed);
\* the failure does not stop onload: once no onload is in flight after an
\* onload call, the patch is installed.
C4_FailedRefreshKeepsList ==
    /\ lastRefresh.outcome \in {"failed", "empty"} => luWeekBlocks = lastRefresh.before
    /\ (lastCall = "onload" /\ pending = <<>>)
          => (format = "patched" /\ luwInjected /\ luWeekInstalled)

\* a fetch failed on a list an earlier refresh had installed, and the onload
\* it belongs to went on to install the patch
C4_Witness ==
    /\ lastRefresh.outcome = "failed"
    /\ lastRefresh.before # DefaultBlocks
    /\ luWeekBlocks = lastRefresh.before
    /\ lastCall = "onload" /\ pending = <<>>
    /\ format = "patched"

\* C5: whenever onunload was the last lifecycle call and no onload is in
\* flight, format is the original function, _luwInjected and luWeek are
\* absent, and every template is formatted as before the plugin was loaded.
C5_TeardownReverses ==
    (lastCall = "onunload" /\ pending = <<>>) =>
        /\ format = "original"
        /\ ~luwInjected
        /\ ~luWeekInstalled
        /\ \A this \in LifecycleMoments, formatStr \in Templates :
              Format(this, formatStr) = originalFormat(this, formatStr)

\* C6: the result of a fetch that settles after onunload ran during its
\* onload is discarded: it does not change luWeekBlocks.
C6_LateFetchDiscarded ==
    (lastRefresh.outcome # "none" /\ lastRefresh.torn) => luWeekBlocks = lastRefresh.before

\* the positions of formatStr at which LUW occurs
LUWAt(s) == {i \in 1..(Len(s) - 2) : SubSeq(s, i, i + 2) = Chars_LUW}

RECURSIVE Flatten(_)
Flatten(pieces) == IF pieces = <<>> THEN <<>> ELSE Head(pieces) \o Flatten(Tail(pieces))

\* s with each occurrence of LUW replaced by rep, position by position
EveryLUWReplaced(s, rep) ==
    Flatten([i \in 1..Len(s) |->
                IF i \in LUWAt(s) THEN rep
                ELSE IF (i - 1) \in LUWAt(s) \/ (i - 2) \in LUWAt(s) THEN <<>>
                ELSE <<s[i]>>])

\* C7: while the patch is installed, format replaces every occurrence of LUW
\* in the template by "[" label "]", label being what luWeek returns for the
\* date, and hands the result to the original format; a template without
\* LUW, empty or absent, goes to the original format unchanged.
C7_PatchedFormat ==
    (lastQuery.kind = "format" /\ lastQuery.patched) =>
        LET f == lastQuery.formatStr
            label == luWeek(lastQuery.this, lastQuery.blocks)
        IN lastQuery.out =
             originalFormat(lastQuery.this,
                IF f = None \/ f = Some(<<>>) \/ LUWAt(f[1]) = {} THEN f
                ELSE Some(EveryLUWReplaced(f[1], <<"[">> \o label \o <<"]">>)))

\* the patched format turned "LUWLUW" into "[Week 2][Week 2]" under a list a
\* refresh installed
C7_Witness ==
    /\ lastQuery.kind = "format" /\ lastQuery.patched
    /\ lastQuery.blocks # DefaultBlocks
    /\ lastQuery.formatStr = Some(Chars_LUW \o Chars_LUW)
    /\ lastQuery.out.formatStr
         = Some(<<"[">> \o WeekLabel(2) \o <<"]", "[">> \o WeekLabel(2) \o <<"]">>)

====
